---- MODULE Spec2Model ----
(***************************************************************************)
(* A model of the MCP filesystem tools of project-mcp-tools:               *)
(*   src/tools/read_file.py, src/tools/write_file.py, src/tools/grep.py.   *)
(* Text is a sequence of one-character strings.  An optional argument      *)
(* (Python None or a value) is the empty tuple or a one-element tuple.     *)
(***************************************************************************)
EXTENDS Integers, Sequences, FiniteSets, TLC

VARIABLES
    fs,        \* file tools: path -> [kind, content]
    written,   \* file tools: path -> content argument of the last successful write_file
    fsBefore,  \* file tools: fs as it was when the last call started
    call,      \* the arguments of the last (or, for grep, the running) call
    res,       \* the outcome of the call: [kind, text] (grep adds owner)
    trace,     \* events the call gave to the trace sink (ctx), in order
    gfs,       \* grep: file under the search root -> [present, content, mtime]
    pc,        \* grep: where the running call is
    files_to_search,   \* grep: the candidate files, in enumeration order
    idx,               \* grep: position of the per-file loop in files_to_search
    matching_files,    \* grep: files with a match, as appended (sorted at the end)
    matching_results,  \* grep: rendered entries of the content and count modes
    owners,    \* grep: the file each entry of matching_results came from
    failed,    \* grep: candidate files whose access failed during the call
    log        \* grep: the filesystem accesses of the call so far, in order

fileVars == <<fs, written, fsBefore>>
grepVars == <<gfs, pc, files_to_search, idx, matching_files, matching_results,
              owners, failed, log>>
vars == <<fs, written, fsBefore, call, res, trace, gfs, pc, files_to_search, idx,
          matching_files, matching_results, owners, failed, log>>

(***************************************************************************)
(* Bounds of the model.                                                    *)
(***************************************************************************)
MaxLen == 2       \* longest short content handed to write_file, in characters
MaxOffset == 3    \* largest offset handed to read_file
MaxLimit == 2     \* largest limit handed to read_file
LongSlack == 2    \* how far the long contents go past the 2000 thresholds
MaxGrepLen == 2   \* longest content of a file under the grep root, in characters
MaxContextLen == 3 \* the same, for the calls with context arguments
MaxContext == 1   \* largest context_before / context_after / context_around
MaxHeadLimit == 2 \* largest head_limit

(***************************************************************************)
(* Program constants.                                                      *)
(***************************************************************************)
DefaultLineCap == 2000   \* lines[:2000]
MaxLineLen == 2000       \* len(line) > 2000 ... line[:2000]
MaxGrepBytes == 52428800 \* 50 * 1024 * 1024: larger files are skipped by grep

None == <<>>
Some(x) == <<x>>
IsNone(o) == o = <<>>
Val(o) == o[1]

LF == "\n"
CR == "\r"
FF == "\f"
Arrow == "→"
Alphabet == {"a", LF, CR}

Min(a, b) == IF a < b THEN a ELSE b
Max(a, b) == IF a > b THEN a ELSE b

Rep(ch, n) == [i \in 1..n |-> ch]
Range(f) == {f[x] : x \in DOMAIN f}

\* Concatenation of f[lo] \o ... \o f[hi], splitting the range in halves.
RECURSIVE ConcatRange(_, _, _)
ConcatRange(f, lo, hi) ==
    IF lo > hi THEN <<>>
    ELSE IF lo = hi THEN f[lo]
    ELSE LET mid == (lo + hi) \div 2
         IN  ConcatRange(f, lo, mid) \o ConcatRange(f, mid + 1, hi)

(***************************************************************************)
(* Python text primitives used by the tools.                               *)
(***************************************************************************)
\* str.splitlines() line boundaries (those the model's alphabet can hold).
LineBoundaries == {LF, CR, FF}

\* str.splitlines(): CR LF is one boundary; no empty last line after a
\* trailing boundary.
SplitLines(c) ==
    LET n == Len(c)
        IsEnd(i) == /\ c[i] \in LineBoundaries
                    /\ ~(c[i] = CR /\ i < n /\ c[i + 1] = LF)
        EndAt(i) == IF IsEnd(i) THEN <<i>> ELSE <<>>
        e == ConcatRange([i \in 1..n |-> EndAt(i)], 1, n)
        m == Len(e)
        TermLen(j) == IF c[e[j]] = LF /\ e[j] > 1 /\ c[e[j] - 1] = CR THEN 2 ELSE 1
        Start(j) == IF j = 1 THEN 1 ELSE e[j - 1] + 1
        full == [j \in 1..m |-> SubSeq(c, Start(j), e[j] - TermLen(j))]
    IN  IF m = 0 THEN (IF n = 0 THEN <<>> ELSE <<c>>)
        ELSE IF e[m] < n THEN Append(full, SubSeq(c, e[m] + 1, n))
        ELSE full

\* Text-mode read with newline=None (Path.read_text): CR LF and CR become LF.
UniversalNewlines(c) ==
    LET n == Len(c)
        At(i) == IF c[i] = CR
                 THEN (IF i < n /\ c[i + 1] = LF THEN <<>> ELSE <<LF>>)
                 ELSE <<c[i]>>
    IN  ConcatRange([i \in 1..n |-> At(i)], 1, n)

\* Text-mode write with newline=None (Path.write_text) on a POSIX system:
\* LF is written as os.linesep, which is LF.
WriteNewlines(c) ==
    LET At(i) == IF c[i] = LF THEN <<LF>> ELSE <<c[i]>>
    IN  ConcatRange([i \in 1..Len(c) |-> At(i)], 1, Len(c))

\* sep.join(rows)
Join(rows, sep) ==
    LET At(i) == IF i = 1 THEN rows[i] ELSE <<sep>> \o rows[i]
    IN  ConcatRange([i \in 1..Len(rows) |-> At(i)], 1, Len(rows))

Digits == <<"0", "1", "2", "3", "4", "5", "6", "7", "8", "9">>

\* str(n) for n >= 0
RECURSIVE ToStr(_)
ToStr(n) == IF n < 10 THEN <<Digits[n + 1]>>
            ELSE Append(ToStr(n \div 10), Digits[(n % 10) + 1])

(***************************************************************************)
(* The filesystem of the file tools: two paths, "/d" and "/d/f" under it.  *)
(* The root directory always exists.                                       *)
(***************************************************************************)
Paths == {"/d", "/d/f"}
Parent(p) == IF p = "/d/f" THEN Some("/d") ELSE None

Absent == [kind |-> "absent", content |-> <<>>]
Dir == [kind |-> "dir", content |-> <<>>]
File(c) == [kind |-> "file", content |-> c]

ShortContents == UNION {[1..n -> Alphabet] : n \in 0..MaxLen}
LongContents ==
    {Rep(LF, n) : n \in DefaultLineCap..(DefaultLineCap + LongSlack)}
    \cup {Rep("a", n) : n \in MaxLineLen..(MaxLineLen + LongSlack - 1)}

Offsets == {None} \cup {Some(k) : k \in 0..MaxOffset}
Limits == {None} \cup {Some(n) : n \in 0..MaxLimit}

(***************************************************************************)
(* read_file                                                               *)
(***************************************************************************)
EmptySentinel == <<"[Empty file]">>
TruncationMarker ==
    <<".", ".", ".", " ", "[", "l", "i", "n", "e", " ",
      "t", "r", "u", "n", "c", "a", "t", "e", "d", "]">>

\* offset handling: the index lines are taken from, 0-based
StartIdx(offset) ==
    IF IsNone(offset) THEN 0
    ELSE IF Val(offset) < 1 THEN 0
    ELSE Val(offset) - 1

\* lines[start_idx:]
DropLines(lines, start_idx) == SubSeq(lines, start_idx + 1, Len(lines))

\* TakeLines with the limit slice taken one line short (lines[:limit - 1]).
TakeLines_ShortSlice(lines, limit) ==
    IF ~IsNone(limit) /\ Val(limit) > 0
    THEN SubSeq(lines, 1, Min(Val(limit) - 1, Len(lines)))
    ELSE IF IsNone(limit) THEN SubSeq(lines, 1, Min(DefaultLineCap, Len(lines)))
    ELSE lines

\* TakeLines without the default cap when limit is absent.
TakeLines_NoCap(lines, limit) ==
    IF ~IsNone(limit) /\ Val(limit) > 0 THEN SubSeq(lines, 1, Min(Val(limit), Len(lines)))
    ELSE lines

\* limit handling on the lines left after the offset
TakeLines(lines, limit) ==
    IF ~IsNone(limit) /\ Val(limit) > 0 THEN SubSeq(lines, 1, Min(Val(limit), Len(lines)))
    ELSE IF IsNone(limit) THEN SubSeq(lines, 1, Min(DefaultLineCap, Len(lines)))
    ELSE lines

\* TruncateLine with the test off by one (len(line) >= 2000).
TruncateLine_AtLimit(line) ==
    IF Len(line) >= MaxLineLen THEN SubSeq(line, 1, MaxLineLen) \o TruncationMarker
    ELSE line

\* per-line truncation
TruncateLine(line) ==
    IF Len(line) > MaxLineLen THEN SubSeq(line, 1, MaxLineLen) \o TruncationMarker
    ELSE line

\* f"     {i}→{line}"
FormatLine(i, line) == <<" ", " ", " ", " ", " ">> \o ToStr(i) \o <<Arrow>> \o line

\* The selected, truncated, numbered lines of a decoded content.
FormattedLines(content, offset, limit) ==
    LET start_idx == StartIdx(offset)
        lines == TakeLines(DropLines(SplitLines(content), start_idx), limit)
    IN  [i \in 1..Len(lines) |-> FormatLine(start_idx + i, TruncateLine(lines[i]))]

\* The whole call: [kind, text, trace].
ReadFile(f, file_path, offset, limit, ctx) ==
    IF ~ctx
    THEN [kind |-> "AttributeError", text |-> <<>>, trace |-> <<>>]
    ELSE IF f[file_path].kind = "absent"
    THEN [kind |-> "FileNotFoundError", text |-> <<>>,
          trace |-> <<"info", "error", "error">>]
    ELSE IF f[file_path].kind # "file"
    THEN [kind |-> "ValueError", text |-> <<>>,
          trace |-> <<"info", "error", "error">>]
    ELSE LET content == UniversalNewlines(f[file_path].content)
             formatted_lines == FormattedLines(content, offset, limit)
         IN  [kind |-> "ok",
              text |-> IF Len(formatted_lines) > 0
                       THEN Join(formatted_lines, LF)
                       ELSE EmptySentinel,
              trace |-> <<"info", "info">>]

(***************************************************************************)
(* write_file                                                              *)
(***************************************************************************)
\* path.parent.mkdir(parents=True, exist_ok=True): the filesystem after it,
\* or no change when it fails (kind says which).
Mkdir(f, file_path) ==
    LET q == Parent(file_path)
    IN  IF IsNone(q) \/ f[Val(q)].kind = "dir" THEN [kind |-> "ok", fs |-> f]
        ELSE IF f[Val(q)].kind = "absent"
        THEN [kind |-> "ok", fs |-> [f EXCEPT ![Val(q)] = Dir]]
        ELSE [kind |-> "FileExistsError", fs |-> f]

\* f"Successfully wrote {len(content)} characters to {file_path}"
SuccessMsg(content, file_path) ==
    <<"Successfully wrote ">> \o ToStr(Len(content)) \o <<" characters to ", file_path>>

\* The whole call: [kind, text, trace, fs].
WriteFile(f, file_path, content, ctx) ==
    IF ~ctx
    THEN [kind |-> "AttributeError", text |-> <<>>, trace |-> <<>>, fs |-> f]
    ELSE LET made == Mkdir(f, file_path)
         IN  IF made.kind # "ok"
             THEN [kind |-> made.kind, text |-> <<>>,
                   trace |-> <<"info", "error">>, fs |-> made.fs]
             ELSE IF made.fs[file_path].kind = "dir"
             THEN [kind |-> "IsADirectoryError", text |-> <<>>,
                   trace |-> <<"info", "error">>, fs |-> made.fs]
             ELSE [kind |-> "ok", text |-> SuccessMsg(content, file_path),
                   trace |-> <<"info", "info">>,
                   fs |-> [made.fs EXCEPT ![file_path] = File(WriteNewlines(content))]]

(***************************************************************************)
(* grep: the search root and the arguments.                                *)
(* The root "/r" exists and is the working directory; "/nx" does not       *)
(* exist.  The files under the root sit directly in it.                    *)
(***************************************************************************)
Cwd == "/r"
GrepPaths == {None, Some("/r"), Some("/nx")}
GrepFiles == {"/r/a.py", "/r/b.py"}

GrepAlphabet == {"x", LF}
\* modification times: two files are older, newer or as old as each other
Mtimes == {1, 2}

\* The patterns handed to grep: the literal x, and [ which does not compile.
Patterns == {<<"x">>, <<"[">>}
Types == {None, Some("py"), Some("zzz")}
Globs == {None, Some(<<"*", ".", "p", "y">>),
          Some(<<"*", ".", "{", "p", "y", ",", "p", "y", "*", "}">>)}
OutputModes == {"files_with_matches", "count", "content"}
Contexts == {None} \cup {Some(n) : n \in 0..MaxContext}
HeadLimits == {None} \cup {Some(n) : n \in 0..MaxHeadLimit}

\* search_path = path if path else os.getcwd()
SearchPath(path) == IF IsNone(path) THEN Cwd ELSE Val(path)

\* os.path.exists(search_path)
Exists(search_path) == search_path = "/r"

\* re.compile(pattern, regex_flags) succeeds
Compiles(pattern) == pattern # <<"[">>

\* the keys of type_extensions
KnownTypes == {"js", "py", "rust", "go", "java", "ts", "tsx", "jsx", "html",
               "css", "json", "yaml", "xml", "md", "txt"}

\* The scope branch of the enumeration.  The parameter named glob hides the
\* glob module inside the function, so glob.glob(...) is an attribute
\* lookup on the argument (None or a str) and raises AttributeError: in the
\* type branch for a known type, in the glob branch always (a brace list
\* has at least one alternative).  An unknown type enumerates nothing.
ScopeBranch(type, glob) ==
    IF ~IsNone(type) /\ Val(type) # ""
    THEN (IF Val(type) \in KnownTypes THEN "AttributeError" ELSE "nothing")
    ELSE IF ~IsNone(glob) /\ Val(glob) # <<>>
    THEN "AttributeError"
    ELSE "walk"

\* the (" with pattern ..." | " with type ..." | "") tail of the two messages
ScopeSuffix(type, glob) ==
    IF ~IsNone(glob) /\ Val(glob) # <<>> THEN <<" with pattern '">> \o Val(glob) \o <<"'">>
    ELSE IF ~IsNone(type) /\ Val(type) # "" THEN <<" with type '", Val(type), "'">>
    ELSE <<>>

\* All orders in which a directory walk can yield the files of S.
Orders(S) == {o \in UNION {[1..n -> S] : n \in {Cardinality(S)}} :
                \A i, j \in 1..Cardinality(S) : i # j => o[i] # o[j]}

(***************************************************************************)
(* grep: the per-file step.                                                *)
(***************************************************************************)
\* [m.start() for m in regex.finditer(content)], 0-based, for a literal
\* one-character pattern
MatchStarts(pattern, content) ==
    LET At(i) == IF content[i] = pattern[1] THEN <<i - 1>> ELSE <<>>
    IN  ConcatRange([i \in 1..Len(content) |-> At(i)], 1, Len(content))

\* content[:start_pos].count('\n') + 1
LineNum(content, start_pos) ==
    Cardinality({j \in 1..start_pos : content[j] = LF}) + 1

\* (first or context_around or 0): None and 0 are both false
ContextOr(first, context_around) ==
    IF ~IsNone(first) /\ Val(first) # 0 THEN Val(first)
    ELSE IF ~IsNone(context_around) /\ Val(context_around) # 0 THEN Val(context_around)
    ELSE 0

\* the rendered window of one match
ContextLines(lines, line_num, before, after, show_line_numbers) ==
    LET start_line == Max(1, line_num - before)
        end_line == Min(Len(lines), line_num + after)
        Prefix(i) == IF show_line_numbers THEN ToStr(i) \o <<":">> ELSE <<>>
    IN  [k \in 1..(end_line - start_line + 1) |->
            Prefix(start_line + k - 1) \o lines[start_line + k - 1]]

\* what one file with matches adds to matching_results
FileResults(file_path, content, c) ==
    LET starts == MatchStarts(c.pattern, content)
    IN  IF c.output_mode = "content"
        THEN LET lines == SplitLines(content)
                 Window(k) ==
                     ContextLines(lines, LineNum(content, starts[k]),
                                  ContextOr(c.context_before, c.context_around),
                                  ContextOr(c.context_after, c.context_around),
                                  c.show_line_numbers)
             IN  ConcatRange([i \in 1..Len(starts) |-> Window(i)], 1, Len(starts))
        ELSE IF c.output_mode = "count"
        THEN <<ToStr(Len(starts)) \o <<":", file_path>>>>
        ELSE <<>>

(***************************************************************************)
(* grep: ordering, head limit, result.                                     *)
(***************************************************************************)
\* files.sort(key=getmtime, reverse=True): stable, later mtime first
SortByMtime(files, mtime) ==
    LET n == Len(files)
        Pos(i) == 1 + Cardinality({j \in 1..n : mtime[files[j]] > mtime[files[i]]})
                    + Cardinality({j \in 1..(i - 1) : mtime[files[j]] = mtime[files[i]]})
    IN  [k \in 1..n |-> files[CHOOSE i \in 1..n : Pos(i) = k]]

\* HeadLimit with the slice one entry long (result_lines[:head_limit + 1]).
HeadLimit_OneMore(result_lines, head_limit) ==
    IF ~IsNone(head_limit) /\ Val(head_limit) > 0
    THEN SubSeq(result_lines, 1, Min(Val(head_limit) + 1, Len(result_lines)))
    ELSE result_lines

\* if head_limit and head_limit > 0: result_lines[:head_limit]
HeadLimit(result_lines, head_limit) ==
    IF ~IsNone(head_limit) /\ Val(head_limit) > 0
    THEN SubSeq(result_lines, 1, Min(Val(head_limit), Len(result_lines)))
    ELSE result_lines

\* result_lines before the head limit: the entries and the file of each
ResultLines(output_mode, sorted_files, results, result_owners) ==
    IF output_mode \in {"content", "count"}
    THEN [text |-> results, owner |-> result_owners]
    ELSE [text |-> [i \in 1..Len(sorted_files) |-> <<sorted_files[i]>>],
          owner |-> sorted_files]

\* The returned entries ("\n".join of them is the returned string).
Rendered(output_mode, sorted_files, results, result_owners, head_limit) ==
    LET rl == ResultLines(output_mode, sorted_files, results, result_owners)
    IN  [kind |-> "ok",
         text |-> HeadLimit(rl.text, head_limit),
         owner |-> HeadLimit(rl.owner, head_limit)]

NotFoundRes(search_path) ==
    [kind |-> "NotFound", owner |-> <<>>,
     text |-> <<<<"Error: Directory '", search_path, "' does not exist">>>>]
InvalidPatternRes(pattern) ==
    [kind |-> "InvalidPattern", owner |-> <<>>,
     text |-> <<<<"Error: Invalid regex pattern '">> \o pattern \o <<"'">>>>]
NoFilesRes(search_path, type, glob) ==
    [kind |-> "NoFiles", owner |-> <<>>,
     text |-> <<<<"No files found to search in '", search_path, "'">>
                 \o ScopeSuffix(type, glob)>>]
NoMatchRes(pattern, search_path, type, glob) ==
    [kind |-> "NoMatch", owner |-> <<>>,
     text |-> <<<<"No files found containing pattern '">> \o pattern
                 \o <<"' in '", search_path, "'">> \o ScopeSuffix(type, glob)>>]
\* except Exception as e: ... return f"Error: {str(e)}"
ErrorRes(e) == [kind |-> "Error", owner |-> <<>>, text |-> <<<<"Error: ", e>>>>]

(***************************************************************************)
(* The file tools as a state machine.  The filesystem starts empty; a      *)
(* client sends one call at a time: the handler runs (read_file,           *)
(* write_file), the response is delivered (Return), and the next call can  *)
(* be sent.  Only the filesystem lives on between calls.                   *)
(***************************************************************************)
NoCall == [tool |-> "none"]
NoRes == [kind |-> "none", text |-> <<>>]

\* no call is running
Idle ==
    /\ call = NoCall
    /\ res = NoRes
    /\ trace = <<>>
    /\ pc = "idle"
    /\ files_to_search = <<>>
    /\ idx = 0
    /\ matching_files = <<>>
    /\ matching_results = <<>>
    /\ owners = <<>>
    /\ failed = {}
    /\ log = <<>>

Init ==
    /\ fs = [p \in Paths |-> Absent]
    /\ written = [p \in Paths |-> None]
    /\ fsBefore = [p \in Paths |-> Absent]
    /\ gfs = [f \in GrepFiles |-> [present |-> FALSE, content |-> <<>>, mtime |-> 1]]
    /\ Idle

read_file ==
    /\ call = NoCall
    /\ \E file_path \in Paths, offset \in Offsets, limit \in Limits, ctx \in BOOLEAN :
        LET r == ReadFile(fs, file_path, offset, limit, ctx)
        IN  /\ call' = [tool |-> "read_file", file_path |-> file_path,
                        offset |-> offset, limit |-> limit, ctx |-> ctx]
            /\ res' = [kind |-> r.kind, text |-> r.text]
            /\ trace' = r.trace
            /\ fsBefore' = fs
            /\ UNCHANGED <<fs, written>>
            /\ UNCHANGED grepVars

\* one write_file call with these arguments
WriteCall(file_path, content, ctx) ==
    LET r == WriteFile(fs, file_path, content, ctx)
    IN  /\ call' = [tool |-> "write_file", file_path |-> file_path,
                    content |-> content, ctx |-> ctx]
        /\ res' = [kind |-> r.kind, text |-> r.text]
        /\ trace' = r.trace
        /\ fsBefore' = fs
        /\ fs' = r.fs
        /\ written' = IF r.kind = "ok"
                      THEN [p \in Paths |->
                              IF p = file_path THEN Some(content)
                              ELSE IF r.fs[p].kind = "file" THEN written[p]
                              ELSE None]
                      ELSE written
        /\ UNCHANGED grepVars

write_file ==
    /\ call = NoCall
    /\ \E file_path \in Paths, ctx \in BOOLEAN :
        \/ \E content \in ShortContents : WriteCall(file_path, content, ctx)
        \/ \E content \in LongContents : WriteCall(file_path, content, ctx)

\* The response is delivered.
Return ==
    /\ call # NoCall
    /\ call' = NoCall
    /\ res' = NoRes
    /\ trace' = <<>>
    /\ fsBefore' = fs
    /\ UNCHANGED <<fs, written>>
    /\ UNCHANGED grepVars

Next == read_file \/ write_file \/ Return

Spec == Init /\ [][Next]_vars

(***************************************************************************)
(* grep as a state machine.  One call runs in steps, so that a file can    *)
(* disappear between them: the existence check (GrepStart), the regex      *)
(* compilation (GrepCompile), the enumeration (GrepEnumerate), one         *)
(* iteration of the per-file loop (GrepScan), and the ordering and         *)
(* rendering (GrepFinish).  An argument enters `call` at the step that     *)
(* first reads it; pattern and path are there from the start.  The call    *)
(* starts on any filesystem and ends at pc = "done".                       *)
(***************************************************************************)
NoFile == [present |-> FALSE, content |-> <<>>, mtime |-> 1]
FilesOf(len) ==
    {NoFile} \cup [present : {TRUE}, mtime : Mtimes,
                   content : UNION {[1..n -> GrepAlphabet] : n \in 0..len}]

\* any files under the root; the calls pass no context arguments
InitGrep ==
    /\ fs = [p \in Paths |-> Absent]
    /\ written = [p \in Paths |-> None]
    /\ fsBefore = [p \in Paths |-> Absent]
    /\ gfs \in [GrepFiles -> FilesOf(MaxGrepLen)]
    /\ Idle

\* one file under the root; the calls are content-mode calls with any
\* context arguments
InitGrepContext ==
    /\ fs = [p \in Paths |-> Absent]
    /\ written = [p \in Paths |-> None]
    /\ fsBefore = [p \in Paths |-> Absent]
    /\ gfs \in {g \in [GrepFiles -> FilesOf(MaxContextLen)] :
                  g["/r/a.py"].present /\ ~g["/r/b.py"].present}
    /\ Idle

Finished(r) ==
    /\ res' = r
    /\ pc' = "done"

\* GrepStart with the regex compiled before the existence check.
GrepStart_CompileFirst ==
    /\ call = NoCall /\ pc = "idle"
    /\ \E pattern \in Patterns, path \in GrepPaths :
        /\ call' = [tool |-> "grep", pattern |-> pattern, path |-> path]
        /\ IF ~Compiles(pattern)
           THEN Finished(InvalidPatternRes(pattern)) /\ log' = <<>>
           ELSE /\ log' = <<"exists">>
                /\ IF Exists(SearchPath(path))
                   THEN pc' = "enumerate" /\ UNCHANGED res
                   ELSE Finished(NotFoundRes(SearchPath(path)))
    /\ UNCHANGED <<fileVars, trace, gfs, files_to_search, idx, matching_files,
                   matching_results, owners, failed>>

\* lines 39-42
GrepStart ==
    /\ call = NoCall /\ pc = "idle"
    /\ \E pattern \in Patterns, path \in GrepPaths :
        /\ call' = [tool |-> "grep", pattern |-> pattern, path |-> path]
        /\ log' = <<"exists">>
        /\ IF Exists(SearchPath(path))
           THEN pc' = "compile" /\ UNCHANGED res
           ELSE Finished(NotFoundRes(SearchPath(path)))
    /\ UNCHANGED <<fileVars, trace, gfs, files_to_search, idx, matching_files,
                   matching_results, owners, failed>>

\* lines 44-54
GrepCompile ==
    /\ pc = "compile"
    /\ IF Compiles(call.pattern)
       THEN pc' = "enumerate" /\ UNCHANGED res
       ELSE Finished(InvalidPatternRes(call.pattern))
    /\ UNCHANGED <<fileVars, call, trace, gfs, files_to_search, idx, matching_files,
                   matching_results, owners, failed, log>>

\* the arguments the per-file loop reads, added to the call
WithOptions(c, modes, contexts) ==
    {c @@ [output_mode |-> m] : m \in modes \ {"content"}}
    \cup {c @@ [output_mode |-> m, context_before |-> b, context_after |-> a,
                context_around |-> r, show_line_numbers |-> n] :
            m \in modes \cap {"content"},
            b \in contexts, a \in contexts, r \in contexts, n \in BOOLEAN}

\* lines 56-106, and the outer handler (166-169) for the AttributeError
GrepEnumerate(modes, contexts) ==
    /\ pc = "enumerate"
    /\ \E type \in Types, glob \in Globs :
        LET c == call @@ [type |-> type, glob |-> glob]
            branch == ScopeBranch(type, glob)
        IN  \/ /\ branch = "AttributeError"
               /\ \E ctx \in BOOLEAN :
                    /\ call' = c @@ [ctx |-> ctx]
                    /\ trace' = IF ctx THEN <<"error">> ELSE <<>>
               /\ Finished(ErrorRes("AttributeError"))
               /\ UNCHANGED <<files_to_search, idx, log>>
            \/ /\ branch = "nothing"
               /\ call' = c
               /\ Finished(NoFilesRes(SearchPath(call.path), type, glob))
               /\ UNCHANGED <<files_to_search, idx, log, trace>>
            \/ /\ branch = "walk"
               /\ \E order \in Orders({f \in GrepFiles : gfs[f].present}) :
                    /\ files_to_search' = order
                    /\ IF order = <<>>
                       THEN /\ call' = c
                            /\ Finished(NoFilesRes(SearchPath(call.path), type, glob))
                            /\ UNCHANGED idx
                       ELSE /\ call' \in WithOptions(c, modes, contexts)
                            /\ pc' = "scan"
                            /\ idx' = 1
                            /\ UNCHANGED res
               /\ log' = log \o <<"walk", "isfile">>
               /\ UNCHANGED trace
    /\ UNCHANGED <<fileVars, gfs, matching_files, matching_results, owners, failed>>

\* one iteration of the loop of lines 111-144
GrepScan ==
    /\ pc = "scan" /\ idx <= Len(files_to_search)
    /\ LET file_path == files_to_search[idx]
           content == UniversalNewlines(gfs[file_path].content)
       IN  IF ~gfs[file_path].present
           THEN \* os.path.getsize raises OSError: continue
                /\ failed' = failed \cup {file_path}
                /\ log' = log \o <<"getsize">>
                /\ UNCHANGED <<matching_files, matching_results, owners>>
           ELSE IF Len(gfs[file_path].content) > MaxGrepBytes
           THEN /\ log' = log \o <<"getsize">>
                /\ UNCHANGED <<matching_files, matching_results, owners, failed>>
           ELSE /\ log' = log \o <<"getsize", "read">>
                /\ UNCHANGED failed
                /\ IF MatchStarts(call.pattern, content) # <<>>
                   THEN LET added == FileResults(file_path, content, call)
                        IN  /\ matching_files' = Append(matching_files, file_path)
                            /\ matching_results' = matching_results \o added
                            /\ owners' = owners \o [k \in 1..Len(added) |-> file_path]
                   ELSE UNCHANGED <<matching_files, matching_results, owners>>
    /\ idx' = idx + 1
    /\ UNCHANGED <<fileVars, call, res, trace, gfs, pc, files_to_search>>

\* lines 146-164, and the outer handler (166-169) for a failing getmtime
GrepFinish ==
    /\ pc = "scan" /\ idx > Len(files_to_search)
    /\ IF matching_files = <<>>
       THEN /\ Finished(NoMatchRes(call.pattern, SearchPath(call.path),
                                   call.type, call.glob))
            /\ UNCHANGED <<call, trace, matching_files, failed, log>>
       ELSE /\ log' = log \o <<"getmtime">>
            /\ IF \E i \in 1..Len(matching_files) : ~gfs[matching_files[i]].present
               THEN \* os.path.getmtime raises FileNotFoundError inside sort
                    /\ \E ctx \in BOOLEAN :
                         /\ call' = call @@ [ctx |-> ctx]
                         /\ trace' = IF ctx THEN <<"error">> ELSE <<>>
                    /\ failed' = failed \cup
                                   {f \in Range(matching_files) : ~gfs[f].present}
                    /\ Finished(ErrorRes("FileNotFoundError"))
                    /\ UNCHANGED matching_files
               ELSE /\ \E head_limit \in HeadLimits :
                         /\ call' = call @@ [head_limit |-> head_limit]
                         /\ matching_files' =
                                SortByMtime(matching_files, [f \in GrepFiles |-> gfs[f].mtime])
                         /\ Finished(Rendered(call.output_mode, matching_files',
                                              matching_results, owners, head_limit))
                    /\ UNCHANGED <<trace, failed>>
    /\ UNCHANGED <<fileVars, gfs, files_to_search, idx, matching_results, owners>>

\* Another process removes a file while the call is past its enumeration.
Unlink ==
    /\ pc = "scan"
    /\ \E f \in GrepFiles :
        /\ gfs[f].present
        /\ gfs' = [gfs EXCEPT ![f].present = FALSE]
    /\ UNCHANGED <<fileVars, call, res, trace, pc, files_to_search, idx,
                   matching_files, matching_results, owners, failed, log>>

NextGrep ==
    \/ GrepStart \/ GrepCompile \/ GrepEnumerate(OutputModes, {None})
    \/ GrepScan \/ GrepFinish \/ Unlink

SpecGrep == InitGrep /\ [][NextGrep]_vars

NextGrepContext ==
    \/ GrepStart \/ GrepCompile \/ GrepEnumerate({"content"}, Contexts)
    \/ GrepScan \/ GrepFinish \/ Unlink

SpecGrepContext == InitGrepContext /\ [][NextGrepContext]_vars

(***************************************************************************)
(* Reading a read_file result back: its rows, and each row's line number   *)
(* and text.                                                               *)
(***************************************************************************)
\* text.split(sep)
SplitOn(text, sep) ==
    LET n == Len(text)
        SepAt(i) == IF text[i] = sep THEN <<i>> ELSE <<>>
        e == ConcatRange([i \in 1..n |-> SepAt(i)], 1, n)
        m == Len(e)
    IN  [j \in 1..(m + 1) |->
            SubSeq(text, IF j = 1 THEN 1 ELSE e[j - 1] + 1,
                         IF j = m + 1 THEN n ELSE e[j] - 1)]

Rows(text) == IF text = EmptySentinel THEN <<>> ELSE SplitOn(text, LF)

ArrowPos(row) == CHOOSE i \in 1..Len(row) : row[i] = Arrow /\ \A j \in 1..(i - 1) : row[j] # Arrow

DigitVal(d) == CHOOSE v \in 0..9 : Digits[v + 1] = d

RECURSIVE FromStr(_)
FromStr(ds) == IF Len(ds) = 0 THEN 0
               ELSE 10 * FromStr(SubSeq(ds, 1, Len(ds) - 1)) + DigitVal(ds[Len(ds)])

\* the number between the five blanks and the arrow
RowNumber(row) == FromStr(SubSeq(row, 6, ArrowPos(row) - 1))
RowBody(row) == SubSeq(row, ArrowPos(row) + 1, Len(row))

ReadOk == call.tool = "read_file" /\ res.kind = "ok"
\* the lines of the file the last read_file call read
FileLines == SplitLines(UniversalNewlines(fs[call.file_path].content))

(***************************************************************************)
(* C1                                                                      *)
(***************************************************************************)
C1_Count(k, n) == Min(n, Max(0, Len(FileLines) - (k - 1)))

\* C1 as stated: read_file with offset k >= 1 and limit n >= 0 returns
\* min(n, max(0, L - (k-1))) lines of a file of L lines, the first of them
\* numbered k.
C1_AsStated ==
    (ReadOk /\ ~IsNone(call.offset) /\ ~IsNone(call.limit) /\ Val(call.offset) >= 1)
    => LET rows == Rows(res.text)
       IN  /\ Len(rows) = C1_Count(Val(call.offset), Val(call.limit))
           /\ Len(rows) > 0 => RowNumber(rows[1]) = Val(call.offset)

\* C1 amended: the same for offset k >= 1 and limit n >= 1; with limit 0 the
\* limit is ignored and every line from line k on is returned, numbered
\* from k.
C1_Amended ==
    (ReadOk /\ ~IsNone(call.offset) /\ ~IsNone(call.limit) /\ Val(call.offset) >= 1)
    => LET rows == Rows(res.text)
           k == Val(call.offset)
           n == Val(call.limit)
       IN  /\ n >= 1 => Len(rows) = C1_Count(k, n)
           /\ n = 0 => Len(rows) = Max(0, Len(FileLines) - (k - 1))
           /\ Len(rows) > 0 => RowNumber(rows[1]) = k

\* C1 witness: offset 2 or more and a limit that cuts the file short.
C1_Witness ==
    /\ ReadOk /\ ~IsNone(call.offset) /\ ~IsNone(call.limit)
    /\ Val(call.offset) >= 2 /\ Val(call.limit) >= 1
    /\ Len(FileLines) - (Val(call.offset) - 1) > Val(call.limit)
    /\ Len(Rows(res.text)) = Val(call.limit)

(***************************************************************************)
(* C2                                                                      *)
(***************************************************************************)
\* C2 as stated: with an explicit offset and no limit every line from line
\* offset to the end of the file is returned; the 2000-line cap applies only
\* when offset and limit are both absent.
C2_AsStated ==
    (ReadOk /\ IsNone(call.limit))
    => LET rows == Rows(res.text)
           L == Len(FileLines)
       IN  IF IsNone(call.offset)
           THEN Len(rows) = Min(DefaultLineCap, L)
           ELSE Len(rows) = Max(0, L - StartIdx(call.offset))

\* C2 amended: with no limit, read_file returns the lines from line offset
\* on (from line 1 without an offset), at most 2000 of them: the cap applies
\* whenever limit is absent, with or without an offset.
C2_Amended ==
    (ReadOk /\ IsNone(call.limit))
    => LET rows == Rows(res.text)
           L == Len(FileLines)
           start == StartIdx(call.offset)
       IN  /\ Len(rows) = Min(DefaultLineCap, Max(0, L - start))
           /\ Len(rows) > 0 =>
                /\ RowNumber(rows[1]) = start + 1
                /\ RowNumber(rows[Len(rows)]) = start + Len(rows)

\* C2 witness: an explicit offset, no limit, and more than 2000 lines from
\* the offset on.
C2_Witness ==
    /\ ReadOk /\ IsNone(call.limit) /\ ~IsNone(call.offset)
    /\ Val(call.offset) >= 2
    /\ Len(FileLines) - StartIdx(call.offset) > DefaultLineCap
    /\ Len(Rows(res.text)) = DefaultLineCap

(***************************************************************************)
(* C7                                                                      *)
(***************************************************************************)
\* C7 as stated, for the file tools: a call made without a trace sink has
\* the result (text or failure kind) and the filesystem effect of the same
\* call made with one.
C7_AsStated ==
    /\ (call.tool = "read_file" /\ ~call.ctx)
       => LET w == ReadFile(fsBefore, call.file_path, call.offset, call.limit, TRUE)
          IN  res.kind = w.kind /\ res.text = w.text /\ fs = fsBefore
    /\ (call.tool = "write_file" /\ ~call.ctx)
       => LET w == WriteFile(fsBefore, call.file_path, call.content, TRUE)
          IN  res.kind = w.kind /\ res.text = w.text /\ fs = w.fs

(***************************************************************************)
(* C8                                                                      *)
(***************************************************************************)
\* a plain read_file(p) of a file that write_file(p, c) wrote
C8_RoundTrip ==
    /\ ReadOk /\ IsNone(call.offset) /\ IsNone(call.limit)
    /\ ~IsNone(written[call.file_path])
    /\ Len(SplitLines(Val(written[call.file_path]))) <= DefaultLineCap

C8_SameLines ==
    LET rows == Rows(res.text)
        lines == SplitLines(Val(written[call.file_path]))
    IN  /\ Len(rows) = Len(lines)
        /\ \A i \in 1..Len(rows) : RowNumber(rows[i]) = i /\ RowBody(rows[i]) = lines[i]

\* C8 as stated: write_file(p, c) then read_file(p), c of at most 2000
\* lines, returns exactly the lines of c, in order, numbered from 1.
C8_AsStated == C8_RoundTrip => C8_SameLines

\* C8 amended: the same for c of at most 2000 lines, none of them longer
\* than 2000 characters (a longer line comes back cut to 2000 characters
\* with the truncation marker).
C8_Amended ==
    (/\ C8_RoundTrip
     /\ \A line \in Range(SplitLines(Val(written[call.file_path]))) :
            Len(line) <= MaxLineLen)
    => C8_SameLines

\* C8 witness: a round trip of a content of two lines or more that holds a
\* carriage return.
C8_Witness ==
    /\ C8_RoundTrip
    /\ Len(Rows(res.text)) >= 2
    /\ CR \in Range(Val(written[call.file_path]))

(***************************************************************************)
(* Reading a grep call back.                                               *)
(***************************************************************************)
GrepDone == call.tool = "grep" /\ pc = "done"
\* an argument of the call, or its default when the call never read it
Arg(name, default) == IF name \in DOMAIN call THEN call[name] ELSE default
HeadLimitOn == ~IsNone(Arg("head_limit", None)) /\ Val(Arg("head_limit", None)) > 0
Decoded(f) == UniversalNewlines(gfs[f].content)
\* the entries of the result that came from file f, in order
EntriesOf(f) ==
    LET At(i) == IF res.owner[i] = f THEN <<res.text[i]>> ELSE <<>>
    IN  ConcatRange([i \in 1..Len(res.owner) |-> At(i)], 1, Len(res.owner))
IsPrefix(a, b) == Len(a) <= Len(b) /\ a = SubSeq(b, 1, Len(a))

(***************************************************************************)
(* C3                                                                      *)
(***************************************************************************)
\* C3 as stated: in every output mode the entries are in modification-time
\* order, most recent file first: every entry of a file comes before every
\* entry of an older file, and the entries of one file are in match order.
C3_AsStated ==
    (GrepDone /\ res.kind = "ok")
    => /\ \A i, j \in 1..Len(res.owner) :
            gfs[res.owner[i]].mtime > gfs[res.owner[j]].mtime => i < j
       /\ call.output_mode = "content" =>
            \A f \in Range(res.owner) :
                IsPrefix(EntriesOf(f), FileResults(f, Decoded(f), call))

(***************************************************************************)
(* C4                                                                      *)
(***************************************************************************)
\* the context the claim states: the specific argument when it is given
\* (0 included), else context_around when it is given, else 0
C4_Context(first, context_around) ==
    IF ~IsNone(first) THEN Val(first)
    ELSE IF ~IsNone(context_around) THEN Val(context_around)
    ELSE 0

\* C4 as stated: in content mode each match on line m is rendered as the
\* lines max(1, m - before) .. min(lineCount, m + after), before and after
\* being context_before and context_after whenever given (0 included),
\* otherwise context_around if given, otherwise 0.
C4_AsStated ==
    (GrepDone /\ res.kind = "ok" /\ call.output_mode = "content" /\ ~HeadLimitOn)
    => LET f == files_to_search[1]
           content == Decoded(f)
           starts == MatchStarts(call.pattern, content)
           Window(k) ==
               ContextLines(SplitLines(content), LineNum(content, starts[k]),
                            C4_Context(call.context_before, call.context_around),
                            C4_Context(call.context_after, call.context_around),
                            call.show_line_numbers)
       IN  res.text = ConcatRange([i \in 1..Len(starts) |-> Window(i)], 1, Len(starts))

(***************************************************************************)
(* C5                                                                      *)
(***************************************************************************)
\* C5 as stated: a pattern that does not compile ends the call in
\* InvalidPattern whether or not the search root exists, and no filesystem
\* access (existence check, enumeration, read) comes before the compile
\* check.
C5_AsStated ==
    (call.tool = "grep" /\ ~Compiles(call.pattern))
    => /\ log = <<>>
       /\ pc = "done" => res.kind = "InvalidPattern"

\* C5 amended: with a pattern that does not compile, the only filesystem
\* access of the call is the existence check of the search root, which
\* comes first: no enumeration and no file read happens.  The call ends in
\* InvalidPattern when the root exists and in NotFound when it does not.
C5_Amended ==
    (call.tool = "grep" /\ ~Compiles(call.pattern))
    => /\ log = <<"exists">>
       /\ pc \in {"compile", "done"}
       /\ pc = "done" =>
            res.kind = IF Exists(SearchPath(call.path)) THEN "InvalidPattern"
                       ELSE "NotFound"

\* C5 witness: a call with a bad pattern on the existing root has ended.
C5_Witness ==
    /\ GrepDone /\ ~Compiles(call.pattern) /\ Exists(SearchPath(call.path))
    /\ res.kind = "InvalidPattern"

(***************************************************************************)
(* C6                                                                      *)
(***************************************************************************)
\* the entries the call would have without the failed files as candidates
C6_Expected ==
    LET cands == SelectSeq(files_to_search, LAMBDA f : f \notin failed)
        hits == SelectSeq(cands, LAMBDA f : MatchStarts(call.pattern, Decoded(f)) # <<>>)
        Added(k) == FileResults(hits[k], Decoded(hits[k]), call)
        Owner(k) == [i \in 1..Len(Added(k)) |-> hits[k]]
    IN  Rendered(call.output_mode, SortByMtime(hits, [f \in GrepFiles |-> gfs[f].mtime]),
                 ConcatRange([i \in 1..Len(hits) |-> Added(i)], 1, Len(hits)),
                 ConcatRange([i \in 1..Len(hits) |-> Owner(i)], 1, Len(hits)),
                 Arg("head_limit", None))

\* C6 as stated: a candidate file that cannot be accessed at some step
\* after the enumeration (the ordering step included) is skipped: the call
\* does not end in an error, no entry of the file is emitted, and the
\* entries of the other files are what they would be without it.
C6_AsStated ==
    (GrepDone /\ failed # {})
    => /\ res.kind # "Error"
       /\ res.kind = "ok" =>
            /\ Range(res.owner) \cap failed = {}
            /\ res.text = C6_Expected.text

(***************************************************************************)
(* C9                                                                      *)
(***************************************************************************)
\* the files the scope of the call selects (every file under the root is a
\* .py file), that exist and hold a match
C9_MatchingFiles ==
    {f \in GrepFiles :
        /\ gfs[f].present
        /\ Arg("type", None) # Some("zzz")
        /\ MatchStarts(call.pattern, Decoded(f)) # <<>>}

\* C9 as stated: in the files_with_matches and count modes the output has
\* exactly one entry per matching file, whatever the scope (none, a type,
\* a glob, a brace glob with overlapping alternatives), and a count entry
\* carries the number of matches of its file.
C9_AsStated ==
    (/\ GrepDone /\ Compiles(call.pattern) /\ Exists(SearchPath(call.path))
     /\ failed = {}
     /\ Arg("output_mode", "files_with_matches") \in {"files_with_matches", "count"})
    => /\ C9_MatchingFiles # {} => res.kind = "ok"
       /\ res.kind = "ok" =>
            /\ \A i, j \in 1..Len(res.owner) : res.owner[i] = res.owner[j] => i = j
            /\ Range(res.owner) \subseteq C9_MatchingFiles
            /\ ~HeadLimitOn => Range(res.owner) = C9_MatchingFiles
            /\ call.output_mode = "count" =>
                 \A i \in 1..Len(res.owner) :
                    res.text[i] =
                        ToStr(Len(MatchStarts(call.pattern, Decoded(res.owner[i]))))
                        \o <<":", res.owner[i]>>

(***************************************************************************)
(* C10                                                                     *)
(***************************************************************************)
\* the entries of the running call had it been made without head_limit
C10_Unlimited ==
    ResultLines(call.output_mode, matching_files, matching_results, owners).text

\* C10: in every output mode, a call with head_limit N > 0 returns at most
\* N entries, and they are the first N entries of what the same call
\* returns without head_limit (all of them when there are fewer than N).
\* A call that ends in a message or an error never reads head_limit.
C10_HeadLimit ==
    (GrepDone /\ res.kind = "ok" /\ HeadLimitOn)
    => LET N == Val(call.head_limit)
       IN  /\ Len(res.text) <= N
           /\ res.text = SubSeq(C10_Unlimited, 1, Min(N, Len(C10_Unlimited)))

\* C10 witness: a content-mode call whose head_limit cuts entries off.
C10_Witness ==
    /\ GrepDone /\ res.kind = "ok" /\ HeadLimitOn
    /\ call.output_mode = "content"
    /\ Len(C10_Unlimited) > Val(call.head_limit)
    /\ Len(res.text) = Val(call.head_limit)

====
